---- MODULE Spec2Model ----
(***************************************************************************)
(* The automod pipeline of rcon/automods/automod.py: the enforcement       *)
(* executor (_do_punitions / do_punitions), the warm-up guard kept in      *)
(* redis, the poll loop (run / punish_squads), the kill and connect hooks  *)
(* and the Timer threads the connect hook starts.                          *)
(*                                                                         *)
(* A handler runs as one step.  What it did (the commands it sent to the   *)
(* rcon channel, the audit records, the moderator callbacks) is recorded,  *)
(* in order, in frame.trace; Return drops the finished frame.              *)
(***************************************************************************)
EXTENDS Integers, Sequences, FiniteSets, TLC

VARIABLES
    guardTTL,       \* redis: seconds the key first_run_done still lives, 0 = no key
    enabledMods,    \* user config: the moderators whose config says enabled
    pollAlive,      \* the while-loop of run() has not raised
    pollSleep,      \* seconds of time.sleep(5) the poll loop still has to sit out
    timers,         \* the Timer threads started by on_connected, in start order
    pendingTimers,  \* the module-level dict: player_id -> index into timers, 0 = no entry
    frame,          \* the handler that ran last: its inputs and what it did
    sinceMark,      \* history: seconds since the last set_first_run_done, -1 = never
    cycleDone,      \* history: a poll cycle has reached set_first_run_done since the start
    superseded,     \* history: timers overwritten in pendingTimers before they fired
    standing,       \* the game: what the moderators find to propose at every
                    \* evaluation for as long as its cause lasts (SpecRetry)
    inFlight        \* per thread: the call of the rcon client it is in, "none" if
                    \* it is in none (SpecChannel)

vars == <<guardTTL, enabledMods, pollAlive, pollSleep, timers, pendingTimers,
          frame, sinceMark, cycleDone, superseded, standing, inFlight>>

-----------------------------------------------------------------------------
(* Bounds of the model *)

MaxActions == 2      \* actions in the aggregate given to one executor run (SpecExec)
MaxProposed == 1     \* actions the moderators propose in one poll cycle or hook (Spec)
MaxTimers == 2       \* Timers started since the process started
MaxSquads == 2       \* squads of one team of a team view (SpecEngine)

-----------------------------------------------------------------------------
(* Program constants *)

GuardTTL == 240      \* set_first_run_done: r.setex(first_run_done_key, 4 * 60, "1")
TimerDelay == 20     \* on_connected: Timer(20, notify_player)
SleepSecs == 5       \* run: time.sleep(5)

Players == {"p1", "p2"}

\* ActionMethod: the three passes of do_punitions
Methods == {"MESSAGE", "PUNISH", "KICK"}

\* What a command sent to the rcon channel does: it returns, raises one of the
\* two failures _do_punitions catches, or raises anything else.
Outcomes == {"ok", "CommandFailedError", "HLLServerError", "Exception"}
Recognized == {"CommandFailedError", "HLLServerError"}

\* The moderators enabled_moderators() builds, in its order
ModOrder == <<"NoLeaderAutomod", "SeedingRulesAutomod",
              "LevelThresholdsAutomod", "NoSoloTankAutomod">>
Moderators == {ModOrder[i] : i \in 1..Len(ModOrder)}

\* The user configurations the model tries: none enabled, one, all four
ConfigChoices == {{}, {"NoLeaderAutomod"}, Moderators}

\* A PunishPlayer, as far as the pipeline reads it: the player, and of its
\* details the dry_run flag and whether discord_audit_url is set.
Acts == [player_id : Players, dry_run : BOOLEAN, has_url : BOOLEAN]
NoAct == [player_id |-> "-", dry_run |-> FALSE, has_url |-> FALSE]

\* A PunitionsToApply: its three lists
EmptyAgg == [warning |-> <<>>, punish |-> <<>>, kick |-> <<>>]

\* The threads that call the rcon client: the poll loop, the threads the
\* log loop runs the two hooks on, and the Timer threads
Sources == {"run", "on_kill", "on_connected", "notify_player"}
NoCalls == [src \in Sources |-> "none"]

\* One entry of a trace
Ev(ev, method, idx, act, info) ==
    [ev |-> ev, method |-> method, idx |-> idx, act |-> act, info |-> info,
     team |-> "", unit |-> ""]

\* A call of a moderator: of punitions_to_apply for a unit of a team, or of a hook
EvCall(method, mod, team, unit) ==
    [ev |-> "mod_call", method |-> method, idx |-> 0, act |-> NoAct, info |-> mod,
     team |-> team, unit |-> unit]

-----------------------------------------------------------------------------
(* enabled_moderators, audit, _do_punitions, do_punitions *)

enabled_moderators == SelectSeq(ModOrder, LAMBDA m : m \in enabledMods)

audit(has_url, method, idx, act, msg) ==
    IF has_url THEN <<Ev("audit", method, idx, act, msg)>> ELSE <<>>

punish_failed_calls(mods, method, idx, act) ==
    [k \in 1..Len(mods) |-> Ev("player_punish_failed", method, idx, act, mods[k])]

\* Attempt with the dry_run test of the KICK branch left out
Attempt_kick_ignores_dry_run(method, act, idx, res, mods) ==
    LET begin == <<Ev("begin", method, idx, act, "")>>
        sends == ~act.dry_run \/ method = "KICK"
        call  == IF sends THEN <<Ev("cmd", method, idx, act, res)>> ELSE <<>>
    IN  IF ~sends \/ res = "ok"
        THEN [trace  |-> begin \o call \o audit(act.has_url, method, idx, act, "success"),
              raised |-> FALSE]
        ELSE IF res \in Recognized
        THEN [trace  |-> begin \o call \o
                         (IF method = "PUNISH"
                          THEN punish_failed_calls(mods, method, idx, act)
                          ELSE IF method = "KICK"
                          THEN audit(act.has_url, method, idx, act, "kick_failed")
                          ELSE <<>>),
              raised |-> FALSE]
        ELSE [trace |-> begin \o call, raised |-> TRUE]

\* Attempt that sends a punish command the channel accepted a second time
Attempt_punish_sent_twice(method, act, idx, res, mods) ==
    LET begin == <<Ev("begin", method, idx, act, "")>>
        once  == IF act.dry_run THEN <<>> ELSE <<Ev("cmd", method, idx, act, res)>>
        call  == IF method = "PUNISH" /\ res = "ok" THEN once \o once ELSE once
    IN  IF act.dry_run \/ res = "ok"
        THEN [trace  |-> begin \o call \o audit(act.has_url, method, idx, act, "success"),
              raised |-> FALSE]
        ELSE IF res \in Recognized
        THEN [trace  |-> begin \o call \o
                         (IF method = "PUNISH"
                          THEN punish_failed_calls(mods, method, idx, act)
                          ELSE IF method = "KICK"
                          THEN audit(act.has_url, method, idx, act, "kick_failed")
                          ELSE <<>>),
              raised |-> FALSE]
        ELSE [trace |-> begin \o call, raised |-> TRUE]

\* Attempt whose except clause raises the failure of a warning again
Attempt_warning_failure_raised(method, act, idx, res, mods) ==
    LET begin == <<Ev("begin", method, idx, act, "")>>
        call  == IF act.dry_run THEN <<>> ELSE <<Ev("cmd", method, idx, act, res)>>
    IN  IF act.dry_run \/ res = "ok"
        THEN [trace  |-> begin \o call \o audit(act.has_url, method, idx, act, "success"),
              raised |-> FALSE]
        ELSE IF res \in Recognized /\ method # "MESSAGE"
        THEN [trace  |-> begin \o call \o
                         (IF method = "PUNISH"
                          THEN punish_failed_calls(mods, method, idx, act)
                          ELSE audit(act.has_url, method, idx, act, "kick_failed")),
              raised |-> FALSE]
        ELSE [trace |-> begin \o call, raised |-> TRUE]

\* Attempt whose except clause calls player_punish_failed for a failed kick too
Attempt_failed_kick_calls_back(method, act, idx, res, mods) ==
    LET begin == <<Ev("begin", method, idx, act, "")>>
        call  == IF act.dry_run THEN <<>> ELSE <<Ev("cmd", method, idx, act, res)>>
    IN  IF act.dry_run \/ res = "ok"
        THEN [trace  |-> begin \o call \o audit(act.has_url, method, idx, act, "success"),
              raised |-> FALSE]
        ELSE IF res \in Recognized
        THEN [trace  |-> begin \o call \o
                         (IF method = "PUNISH"
                          THEN punish_failed_calls(mods, method, idx, act)
                          ELSE IF method = "KICK"
                          THEN punish_failed_calls(mods, method, idx, act) \o
                               audit(act.has_url, method, idx, act, "kick_failed")
                          ELSE <<>>),
              raised |-> FALSE]
        ELSE [trace |-> begin \o call, raised |-> TRUE]

\* Attempt whose except clause raises the failure of a kick again
Attempt_kick_failure_raised(method, act, idx, res, mods) ==
    LET begin == <<Ev("begin", method, idx, act, "")>>
        call  == IF act.dry_run THEN <<>> ELSE <<Ev("cmd", method, idx, act, res)>>
    IN  IF act.dry_run \/ res = "ok"
        THEN [trace  |-> begin \o call \o audit(act.has_url, method, idx, act, "success"),
              raised |-> FALSE]
        ELSE IF res \in Recognized /\ method # "KICK"
        THEN [trace  |-> begin \o call \o
                         (IF method = "PUNISH"
                          THEN punish_failed_calls(mods, method, idx, act)
                          ELSE <<>>),
              raised |-> FALSE]
        ELSE [trace |-> begin \o call, raised |-> TRUE]

\* One turn of the for-loop of _do_punitions: the try body and the except clause.
\* res is what the channel does with the command, if one is sent.
Attempt(method, act, idx, res, mods) ==
    LET begin == <<Ev("begin", method, idx, act, "")>>
        call  == IF act.dry_run THEN <<>> ELSE <<Ev("cmd", method, idx, act, res)>>
    IN  IF act.dry_run \/ res = "ok"
        THEN [trace  |-> begin \o call \o audit(act.has_url, method, idx, act, "success"),
              raised |-> FALSE]
        ELSE IF res \in Recognized
        THEN [trace  |-> begin \o call \o
                         (IF method = "PUNISH"
                          THEN punish_failed_calls(mods, method, idx, act)
                          ELSE IF method = "KICK"
                          THEN audit(act.has_url, method, idx, act, "kick_failed")
                          ELSE <<>>),
              raised |-> FALSE]
        ELSE [trace |-> begin \o call, raised |-> TRUE]

RECURSIVE DoLoop(_, _, _, _, _)
DoLoop(method, players, results, mods, idx) ==
    IF idx > Len(players)
    THEN [trace |-> <<>>, raised |-> FALSE]
    ELSE LET one == Attempt(method, players[idx], idx, results[idx], mods)
         IN  IF one.raised
             THEN one
             ELSE LET rest == DoLoop(method, players, results, mods, idx + 1)
                  IN  [trace |-> one.trace \o rest.trace, raised |-> rest.raised]

\* _do_punitions with the try around the whole for-loop: the first failure the
\* except clause catches ends the pass
RECURSIVE DoLoopTryOutside(_, _, _, _, _)
DoLoopTryOutside(method, players, results, mods, idx) ==
    IF idx > Len(players)
    THEN [trace |-> <<>>, raised |-> FALSE]
    ELSE LET act == players[idx]
             one == Attempt(method, act, idx, results[idx], mods)
         IN  IF one.raised \/ (~act.dry_run /\ results[idx] \in Recognized)
             THEN one
             ELSE LET rest == DoLoopTryOutside(method, players, results, mods, idx + 1)
                  IN  [trace |-> one.trace \o rest.trace, raised |-> rest.raised]

_do_punitions_try_outside(method, players, results, mods) ==
    DoLoopTryOutside(method, players, results, mods, 1)

_do_punitions(method, players, results, mods) ==
    DoLoop(method, players, results, mods, 1)

\* do_punitions with the kick pass first
do_punitions_kick_first(agg, oracle, mods) ==
    LET k == _do_punitions("KICK", agg.kick, oracle.kick, mods)
    IN  IF k.raised THEN k
        ELSE LET w == _do_punitions("MESSAGE", agg.warning, oracle.warning, mods)
             IN  IF w.raised
                 THEN [trace |-> k.trace \o w.trace, raised |-> TRUE]
                 ELSE LET p == _do_punitions("PUNISH", agg.punish, oracle.punish, mods)
                      IN  [trace  |-> k.trace \o w.trace \o p.trace,
                           raised |-> p.raised]

\* The three passes, in the order of the source; an exception no pass catches
\* ends the run there.
do_punitions(agg, oracle, mods) ==
    LET w == _do_punitions("MESSAGE", agg.warning, oracle.warning, mods)
    IN  IF w.raised THEN w
        ELSE LET p == _do_punitions("PUNISH", agg.punish, oracle.punish, mods)
             IN  IF p.raised
                 THEN [trace |-> w.trace \o p.trace, raised |-> TRUE]
                 ELSE LET k == _do_punitions("KICK", agg.kick, oracle.kick, mods)
                      IN  [trace  |-> w.trace \o p.trace \o k.trace,
                           raised |-> k.raised]

-----------------------------------------------------------------------------
(* The inputs of one executor run: the aggregate the moderators proposed and *)
(* what the channel does with each command                                   *)

Tasks == {t \in [method : Methods, act : Acts, res : Outcomes] :
             t.act.dry_run => t.res = "ok"}

TaskSeqs(n) == UNION {[1..k -> Tasks] : k \in 0..n}

OfMethod(ts, method) == SelectSeq(ts, LAMBDA t : t.method = method)

ActsOf(ts) == [i \in 1..Len(ts) |-> ts[i].act]
ResOf(ts) == [i \in 1..Len(ts) |-> ts[i].res]

AggOf(ts) == [warning |-> ActsOf(OfMethod(ts, "MESSAGE")),
              punish  |-> ActsOf(OfMethod(ts, "PUNISH")),
              kick    |-> ActsOf(OfMethod(ts, "KICK"))]

OracleOf(ts) == [warning |-> ResOf(OfMethod(ts, "MESSAGE")),
                 punish  |-> ResOf(OfMethod(ts, "PUNISH")),
                 kick    |-> ResOf(OfMethod(ts, "KICK"))]

EmptyOracle == [warning |-> <<>>, punish |-> <<>>, kick |-> <<>>]

-----------------------------------------------------------------------------
(* The warm-up guard: the redis key first_run_done *)

is_first_run_done == guardTTL > 0

\* set_first_run_done that leaves a key that is still alive alone (SET NX)
set_first_run_done_keeps_ttl(ttl) == IF ttl > 0 THEN ttl ELSE GuardTTL

\* The time to live of the key after r.setex(first_run_done_key, 4 * 60, "1"),
\* given the one it had
set_first_run_done(ttl) == GuardTTL

-----------------------------------------------------------------------------
(* get_punitions_to_apply *)

Teams == <<"allies", "axis">>
SquadNames == <<"able", "baker", "charlie", "dog">>

\* A team of a team view: present says whether team_view.get(team) is truthy,
\* commander whether its commander is not None, squads how many squads it has.
TeamEntries == [present : BOOLEAN, commander : BOOLEAN, squads : 0..MaxSquads]
NoTeam == [present |-> FALSE, commander |-> FALSE, squads |-> 0]

\* The calls of one unit: every moderator, in the order of the list
UnitCalls(mods, team, unit) ==
    [k \in 1..Len(mods) |-> EvCall("punitions_to_apply", mods[k], team, unit)]

RECURSIVE SquadCalls(_, _, _, _)
SquadCalls(mods, team, n, i) ==
    IF i > n THEN <<>>
    ELSE UnitCalls(mods, team, SquadNames[i]) \o SquadCalls(mods, team, n, i + 1)

TeamCalls(mods, team_view, team) ==
    IF ~team_view[team].present THEN <<>>
    ELSE (IF team_view[team].commander THEN UnitCalls(mods, team, "Commander") ELSE <<>>)
         \o SquadCalls(mods, team, team_view[team].squads, 1)

\* EvalCalls that leaves the loop over the teams at the first team without an
\* entry
EvalCalls_stops_at_absent_team(mods, team_view) ==
    IF ~team_view[Teams[1]].present THEN <<>>
    ELSE TeamCalls(mods, team_view, Teams[1]) \o TeamCalls(mods, team_view, Teams[2])

\* The calls of punitions_to_apply that get_punitions_to_apply makes, in order
EvalCalls(mods, team_view) ==
    TeamCalls(mods, team_view, Teams[1]) \o TeamCalls(mods, team_view, Teams[2])

\* fault names the call that raises, if any; proposed is the merge of what the
\* moderators return.
get_punitions_to_apply(mods, team_view, fault, proposed) ==
    LET tv    == Ev("fetch", "get_team_view", 0, NoAct,
                    IF fault = "get_team_view" THEN "Exception" ELSE "ok")
        gs    == Ev("fetch", "get_gamestate", 0, NoAct,
                    IF fault = "get_gamestate" THEN "Exception" ELSE "ok")
        calls == EvalCalls(mods, team_view)
    IN  IF fault = "get_team_view"
        THEN [trace |-> <<tv>>, raised |-> TRUE, agg |-> EmptyAgg]
        ELSE IF fault = "get_gamestate"
        THEN [trace |-> <<tv, gs>>, raised |-> TRUE, agg |-> EmptyAgg]
        ELSE IF fault = "punitions_to_apply" /\ calls # <<>>
        THEN [trace |-> <<tv, gs, calls[1]>>, raised |-> TRUE, agg |-> EmptyAgg]
        ELSE [trace |-> <<tv, gs>> \o calls, raised |-> FALSE,
              agg |-> IF calls = <<>> THEN EmptyAgg ELSE proposed]

-----------------------------------------------------------------------------
(* punish_squads *)

MarkEv == Ev("mark", "set_first_run_done", 0, NoAct, "")

\* punish_squads without the test for an empty list of moderators
punish_squads_no_enabled_test(mods, team_view, fault, proposed, oracle) ==
    LET e == get_punitions_to_apply(mods, team_view, fault, proposed)
    IN  IF e.raised
        THEN [trace |-> e.trace, raised |-> TRUE, marked |-> FALSE, agg |-> e.agg]
        ELSE LET x == do_punitions(e.agg, oracle, mods)
             IN  IF x.raised
                 THEN [trace |-> e.trace \o x.trace, raised |-> TRUE,
                       marked |-> FALSE, agg |-> e.agg]
                 ELSE [trace |-> e.trace \o x.trace \o <<MarkEv>>, raised |-> FALSE,
                       marked |-> TRUE, agg |-> e.agg]

\* punish_squads that calls set_first_run_done before do_punitions
punish_squads_marks_first(mods, team_view, fault, proposed, oracle) ==
    IF Len(mods) = 0
    THEN [trace |-> <<>>, raised |-> FALSE, marked |-> FALSE, agg |-> EmptyAgg]
    ELSE LET e == get_punitions_to_apply(mods, team_view, fault, proposed)
         IN  IF e.raised
             THEN [trace |-> e.trace, raised |-> TRUE, marked |-> FALSE, agg |-> e.agg]
             ELSE LET x == do_punitions(e.agg, oracle, mods)
                  IN  [trace |-> e.trace \o <<MarkEv>> \o x.trace,
                       raised |-> x.raised, marked |-> TRUE, agg |-> e.agg]

punish_squads(mods, team_view, fault, proposed, oracle) ==
    IF Len(mods) = 0
    THEN [trace |-> <<>>, raised |-> FALSE, marked |-> FALSE, agg |-> EmptyAgg]
    ELSE LET e == get_punitions_to_apply(mods, team_view, fault, proposed)
         IN  IF e.raised
             THEN [trace |-> e.trace, raised |-> TRUE, marked |-> FALSE, agg |-> e.agg]
             ELSE LET x == do_punitions(e.agg, oracle, mods)
                  IN  IF x.raised
                      THEN [trace |-> e.trace \o x.trace, raised |-> TRUE,
                            marked |-> FALSE, agg |-> e.agg]
                      ELSE [trace |-> e.trace \o x.trace \o <<MarkEv>>,
                            raised |-> FALSE, marked |-> TRUE, agg |-> e.agg]

-----------------------------------------------------------------------------
(* The hooks *)

\* The moderators that have an on_kill and an on_connected method
ExposesOnKill == {"SeedingRulesAutomod"}
ExposesOnConnected == {"SeedingRulesAutomod", "LevelThresholdsAutomod"}

HookMods(mods, exposing) == SelectSeq(mods, LAMBDA m : m \in exposing)

HookCalls(mods, exposing, method, unit) ==
    LET hm == HookMods(mods, exposing)
    IN  [k \in 1..Len(hm) |-> EvCall(method, hm[k], "", unit)]

NoWork == [trace |-> <<>>, raised |-> FALSE, agg |-> EmptyAgg, mods |-> <<>>,
           schedule |-> FALSE]

\* on_kill without the test of the guard
on_kill_no_guard(ready, mods, proposed, oracle) ==
    IF Len(mods) = 0 THEN NoWork
    ELSE LET calls == HookCalls(mods, ExposesOnKill, "on_kill", "")
             agg   == IF calls = <<>> THEN EmptyAgg ELSE proposed
             x     == do_punitions(agg, oracle, mods)
         IN  [trace |-> calls \o x.trace, raised |-> x.raised, agg |-> agg,
              mods |-> mods, schedule |-> FALSE]

on_kill(ready, mods, proposed, oracle) ==
    IF ~ready THEN NoWork
    ELSE IF Len(mods) = 0 THEN NoWork
    ELSE LET calls == HookCalls(mods, ExposesOnKill, "on_kill", "")
             agg   == IF calls = <<>> THEN EmptyAgg ELSE proposed
             x     == do_punitions(agg, oracle, mods)
         IN  [trace |-> calls \o x.trace, raised |-> x.raised, agg |-> agg,
              mods |-> mods, schedule |-> FALSE]

\* on_connected without the try around get_detailed_player_info: a failure of
\* the fetch leaves the hook
on_connected_fetch_failure_raised(ready, mods, player, detail, proposed, next) ==
    IF ~ready THEN NoWork
    ELSE IF Len(mods) = 0 THEN NoWork
    ELSE LET fetch == Ev("fetch", "get_detailed_player_info", 0, NoAct, detail)
             calls == HookCalls(mods, ExposesOnConnected, "on_connected", "detail")
             agg   == IF calls = <<>> THEN EmptyAgg ELSE proposed
         IN  IF detail # "ok"
             THEN [trace |-> <<fetch>>, raised |-> TRUE, agg |-> EmptyAgg,
                   mods |-> mods, schedule |-> FALSE]
             ELSE IF Len(agg.warning) = 0
             THEN [trace |-> <<fetch>> \o calls, raised |-> FALSE, agg |-> agg,
                   mods |-> mods, schedule |-> FALSE]
             ELSE [trace |-> <<fetch>> \o calls \o
                             <<Ev("schedule", "Timer", next, NoAct, player)>>,
                   raised |-> FALSE, agg |-> agg, mods |-> mods, schedule |-> TRUE]

\* on_connected up to the start of the Timer. detail is what
\* get_detailed_player_info does; next is the index the new Timer gets.
on_connected(ready, mods, player, detail, proposed, next) ==
    IF ~ready THEN NoWork
    ELSE IF Len(mods) = 0 THEN NoWork
    ELSE LET fetch == Ev("fetch", "get_detailed_player_info", 0, NoAct, detail)
             calls == HookCalls(mods, ExposesOnConnected, "on_connected",
                                IF detail = "ok" THEN "detail" ELSE "None")
             agg   == IF calls = <<>> THEN EmptyAgg ELSE proposed
         IN  IF Len(agg.warning) = 0
             THEN [trace |-> <<fetch>> \o calls, raised |-> FALSE, agg |-> agg,
                   mods |-> mods, schedule |-> FALSE]
             ELSE [trace |-> <<fetch>> \o calls \o
                             <<Ev("schedule", "Timer", next, NoAct, player)>>,
                   raised |-> FALSE, agg |-> agg, mods |-> mods, schedule |-> TRUE]

\* notify_player: the for-loop inside the try. The first message_player that
\* raises ends the loop; the except clause logs it.
RECURSIVE NotifyLoop(_, _, _)
NotifyLoop(warnings, results, idx) ==
    IF idx > Len(warnings) THEN <<>>
    ELSE <<Ev("cmd", "MESSAGE", idx, warnings[idx], results[idx])>> \o
         (IF results[idx] = "ok" THEN NotifyLoop(warnings, results, idx + 1) ELSE <<>>)

notify_player(warnings, results) == NotifyLoop(warnings, results, 1)

-----------------------------------------------------------------------------
(* Frames *)

NoTeamView == [allies |-> NoTeam, axis |-> NoTeam]

\* entryTTL is guardTTL when the handler was entered, entryDone is cycleDone then
Frame(src, phase, mods, agg, oracle, trace, raised) ==
    [src |-> src, phase |-> phase, mods |-> mods, agg |-> agg, oracle |-> oracle,
     trace |-> trace, raised |-> raised, entryTTL |-> guardTTL, entryDone |-> cycleDone,
     player |-> "", timer |-> 0, team_view |-> NoTeamView, fault |-> "none"]

IdleFrame ==
    [src |-> "none", phase |-> "idle", mods |-> <<>>, agg |-> EmptyAgg,
     oracle |-> EmptyOracle, trace |-> <<>>, raised |-> FALSE, entryTTL |-> 0,
     entryDone |-> FALSE, player |-> "", timer |-> 0, team_view |-> NoTeamView,
     fault |-> "none"]

\* The state after the module is loaded and before run() is entered
Init ==
    /\ guardTTL = 0
    /\ enabledMods \in ConfigChoices
    /\ pollAlive = TRUE
    /\ pollSleep = 0
    /\ timers = <<>>
    /\ pendingTimers = [p \in Players |-> 0]
    /\ frame = IdleFrame
    /\ sinceMark = -1
    /\ cycleDone = FALSE
    /\ superseded = {}
    /\ standing = EmptyAgg
    /\ inFlight = NoCalls

-----------------------------------------------------------------------------
(* SpecExec: one call of do_punitions on every aggregate of at most        *)
(* MaxActions actions, under every behaviour of the channel                *)

InitExec ==
    /\ guardTTL = 0
    /\ enabledMods \in ConfigChoices \ {{}}
    /\ pollAlive = TRUE
    /\ pollSleep = 0
    /\ timers = <<>>
    /\ pendingTimers = [p \in Players |-> 0]
    /\ \E ts \in TaskSeqs(MaxActions) :
          frame = [IdleFrame EXCEPT !.src = "do_punitions", !.phase = "call",
                                    !.mods = enabled_moderators,
                                    !.agg = AggOf(ts), !.oracle = OracleOf(ts)]
    /\ sinceMark = -1
    /\ cycleDone = FALSE
    /\ superseded = {}
    /\ standing = EmptyAgg
    /\ inFlight = NoCalls

ExecRun ==
    /\ frame.phase = "call"
    /\ frame.src = "do_punitions"
    /\ LET r == do_punitions(frame.agg, frame.oracle, enabled_moderators)
       IN  frame' = [frame EXCEPT !.phase = "return", !.trace = r.trace,
                                  !.raised = r.raised]
    /\ UNCHANGED <<guardTTL, enabledMods, pollAlive, pollSleep, timers, pendingTimers,
                   sinceMark, cycleDone, superseded, standing, inFlight>>

NextExec == ExecRun

SpecExec == InitExec /\ [][NextExec]_vars

-----------------------------------------------------------------------------
(* Spec: the poll loop, the hooks, the Timers, time, the configuration and  *)
(* restarts of the process                                                  *)

\* What the model lets the channel do in Spec, and what it lets the moderators
\* propose there: actions on one player, without an audit url
SysOutcomes == {"ok", "CommandFailedError", "Exception"}

SysTasks(p) == {t \in Tasks : /\ t.act.player_id = p
                              /\ ~t.act.has_url
                              /\ t.res \in SysOutcomes}

SysTaskSeqs(p) == UNION {[1..k -> SysTasks(p)] : k \in 0..MaxProposed}

Proposals(p) ==
    UNION {[1..k -> {t \in SysTasks(p) : t.res = "ok"}] : k \in 0..MaxProposed}

TeamViewChoices ==
    { NoTeamView,
      [allies |-> [present |-> TRUE, commander |-> TRUE, squads |-> 1], axis |-> NoTeam],
      [allies |-> [present |-> TRUE, commander |-> FALSE, squads |-> 1],
       axis   |-> [present |-> TRUE, commander |-> TRUE, squads |-> 0]] }

Faults == {"none", "get_team_view", "get_gamestate", "punitions_to_apply"}

\* The steps of time the model takes
TickSteps == {TimerDelay, GuardTTL - TimerDelay}

Minus(a, d) == IF a > d THEN a - d ELSE 0
Aged(a, d) == IF a < 0 THEN a ELSE IF a + d > GuardTTL THEN GuardTTL ELSE a + d

Idle == frame.phase = "idle"

\* Time passes: the key in redis, the sleep of the poll loop and the Timers
\* that have not fired all come d seconds nearer to their end.
Tick(d) ==
    /\ Idle
    /\ guardTTL' = Minus(guardTTL, d)
    /\ pollSleep' = Minus(pollSleep, d)
    /\ timers' = [i \in 1..Len(timers) |->
                    [timers[i] EXCEPT !.rem = Minus(timers[i].rem, d)]]
    /\ sinceMark' = Aged(sinceMark, d)
    /\ UNCHANGED <<enabledMods, pollAlive, pendingTimers, frame, cycleDone, superseded, standing, inFlight>>

\* The user saves another configuration.
SetConfig(c) ==
    /\ Idle
    /\ c # enabledMods
    /\ enabledMods' = c
    /\ UNCHANGED <<guardTTL, pollAlive, pollSleep, timers, pendingTimers, frame,
                   sinceMark, cycleDone, superseded, standing, inFlight>>

\* The moderators propose something only if they are called
Used(mods, tv, fault) ==
    /\ Len(mods) > 0
    /\ fault = "none"
    /\ EvalCalls(mods, tv) # <<>>

\* Cycle whose except clause does not raise again: the loop goes on after
\* time.sleep
Cycle_swallows_exception(tv, fault, proposed, oracle) ==
    LET mods == enabled_moderators
        r    == punish_squads(mods, tv, fault, proposed, oracle)
    IN  /\ frame' = [Frame("run", "return", mods, r.agg, oracle,
                           r.trace, r.raised) EXCEPT !.player = ""]
        /\ guardTTL' = IF r.marked THEN set_first_run_done(guardTTL) ELSE guardTTL
        /\ sinceMark' = IF r.marked THEN 0 ELSE sinceMark
        /\ cycleDone' = (cycleDone \/ r.marked)
        /\ pollAlive' = TRUE
        /\ pollSleep' = SleepSecs
        /\ UNCHANGED <<enabledMods, timers, pendingTimers, superseded, standing, inFlight>>

\* One turn of the while-loop of run(): punish_squads, then time.sleep(5); an
\* exception is logged and raised again, which ends the loop. tv, fault and
\* proposed are what the game and the moderators give this turn, oracle what
\* the channel does with its commands.
Cycle(tv, fault, proposed, oracle) ==
    LET mods == enabled_moderators
        r    == punish_squads(mods, tv, fault, proposed, oracle)
    IN  /\ frame' = [Frame("run", "return", mods, r.agg, oracle,
                           r.trace, r.raised) EXCEPT !.player = ""]
        /\ guardTTL' = IF r.marked THEN set_first_run_done(guardTTL) ELSE guardTTL
        /\ sinceMark' = IF r.marked THEN 0 ELSE sinceMark
        /\ cycleDone' = (cycleDone \/ r.marked)
        /\ pollAlive' = ~r.raised
        /\ pollSleep' = IF r.raised THEN 0 ELSE SleepSecs
        /\ UNCHANGED <<enabledMods, timers, pendingTimers, superseded, standing, inFlight>>

PollCycle ==
    /\ Idle
    /\ pollAlive
    /\ pollSleep = 0
    /\ \E tv \in TeamViewChoices, fault \in Faults, ts \in SysTaskSeqs("p1") :
          /\ ~Used(enabled_moderators, tv, fault) => ts = <<>>
          /\ Cycle(tv, fault, AggOf(ts), OracleOf(ts))

\* A kill line of the game log reaches the on_kill hook.
OnKill ==
    /\ Idle
    /\ \E ts \in SysTaskSeqs("p1") :
          LET mods == enabled_moderators
              used == /\ is_first_run_done
                      /\ HookMods(mods, ExposesOnKill) # <<>>
              r    == on_kill(is_first_run_done, mods, AggOf(ts), OracleOf(ts))
          IN  /\ ~used => ts = <<>>
              /\ frame' = Frame("on_kill", "return", r.mods, r.agg, OracleOf(ts),
                                r.trace, r.raised)
    /\ UNCHANGED <<guardTTL, enabledMods, pollAlive, pollSleep, timers, pendingTimers,
                   sinceMark, cycleDone, superseded, standing, inFlight>>

\* A player has connected: the on_connected hook. When it has warnings it
\* starts a Timer and puts it in pendingTimers under the player's id; the Timer
\* that was there stays started.
OnConnected(player) ==
    /\ Idle
    /\ Len(timers) < MaxTimers
    /\ \E detail \in {"ok", "Exception"}, ts \in Proposals(player) :
          LET mods == enabled_moderators
              used == /\ is_first_run_done
                      /\ HookMods(mods, ExposesOnConnected) # <<>>
              next == Len(timers) + 1
              old  == pendingTimers[player]
              r    == on_connected(is_first_run_done, mods, player, detail,
                                   AggOf(ts), next)
          IN  /\ ~used => ts = <<>>
              /\ ~(is_first_run_done /\ Len(mods) > 0) => detail = "ok"
              /\ frame' = [Frame("on_connected", "return", r.mods, r.agg, EmptyOracle,
                                 r.trace, r.raised)
                           EXCEPT !.player = player,
                                  !.timer = IF r.schedule THEN next ELSE 0]
              /\ IF r.schedule
                 THEN /\ timers' = Append(timers, [player_id |-> player,
                                                   warnings  |-> r.agg.warning,
                                                   rem       |-> TimerDelay,
                                                   fired     |-> FALSE])
                      /\ pendingTimers' = [pendingTimers EXCEPT ![player] = next]
                      /\ superseded' = IF old # 0 /\ ~timers[old].fired
                                       THEN superseded \cup {old} ELSE superseded
                 ELSE UNCHANGED <<timers, pendingTimers, superseded>>
    /\ UNCHANGED <<guardTTL, enabledMods, pollAlive, pollSleep,
                   sinceMark, cycleDone, standing, inFlight>>

\* The delay of a Timer is over and its thread runs notify_player, and ends:
\* what is left of it is the finished Timer object.
TimerFires(i) ==
    /\ Idle
    /\ ~timers[i].fired
    /\ timers[i].rem = 0
    /\ \E results \in [1..Len(timers[i].warnings) -> SysOutcomes] :
          LET trace == notify_player(timers[i].warnings, results)
          IN  /\ \A k \in 1..Len(results) : k > Len(trace) => results[k] = "ok"
              /\ frame' = [Frame("notify_player", "return", <<>>,
                                 [EmptyAgg EXCEPT !.warning = timers[i].warnings],
                                 EmptyOracle, trace, FALSE)
                           EXCEPT !.player = timers[i].player_id, !.timer = i]
    /\ timers' = [timers EXCEPT ![i].fired = TRUE, ![i].warnings = <<>>]
    /\ UNCHANGED <<guardTTL, enabledMods, pollAlive, pollSleep, pendingTimers,
                   sinceMark, cycleDone, superseded, standing, inFlight>>

\* The process is started again: the module is loaded afresh and run() entered.
\* What is in redis stays as it is.
Restart ==
    /\ Idle
    /\ \/ ~pollAlive \/ pollSleep # 0 \/ timers # <<>> \/ cycleDone
    /\ pollAlive' = TRUE
    /\ pollSleep' = 0
    /\ timers' = <<>>
    /\ pendingTimers' = [p \in Players |-> 0]
    /\ cycleDone' = FALSE
    /\ superseded' = {}
    /\ inFlight' = NoCalls
    /\ UNCHANGED <<guardTTL, enabledMods, frame, sinceMark, standing>>

\* The handler has returned.
Return ==
    /\ frame.phase = "return"
    /\ frame' = IdleFrame
    /\ UNCHANGED <<guardTTL, enabledMods, pollAlive, pollSleep, timers, pendingTimers,
                   sinceMark, cycleDone, superseded, standing, inFlight>>

Next ==
    \/ \E d \in TickSteps : Tick(d)
    \/ \E c \in ConfigChoices : SetConfig(c)
    \/ PollCycle
    \/ OnKill
    \/ \E p \in Players : OnConnected(p)
    \/ \E i \in 1..Len(timers) : TimerFires(i)
    \/ Restart
    \/ Return

Spec == Init /\ [][Next]_vars

\* SpecPoll: the poll loop and the kill hook alone, with time, the
\* configuration and restarts; no player connects.
NextPoll ==
    \/ \E d \in TickSteps : Tick(d)
    \/ \E c \in ConfigChoices : SetConfig(c)
    \/ PollCycle
    \/ OnKill
    \/ Restart
    \/ Return

SpecPoll == Init /\ [][NextPoll]_vars

\* SpecHooks: one kill or connect event, handled in every state of the guard
\* (never marked, run out, about to run out, just marked) under every
\* configuration.
InitHooks ==
    /\ \E g \in {[ttl |-> 0, since |-> -1, done |-> FALSE],
                  [ttl |-> 0, since |-> GuardTTL, done |-> TRUE],
                  [ttl |-> 0, since |-> GuardTTL, done |-> FALSE],
                  [ttl |-> TimerDelay, since |-> GuardTTL - TimerDelay, done |-> TRUE],
                  [ttl |-> GuardTTL, since |-> 0, done |-> TRUE],
                  [ttl |-> GuardTTL, since |-> 0, done |-> FALSE]} :
          /\ guardTTL = g.ttl
          /\ sinceMark = g.since
          /\ cycleDone = g.done
    /\ enabledMods \in ConfigChoices
    /\ pollAlive = TRUE
    /\ pollSleep = 0
    /\ timers = <<>>
    /\ pendingTimers = [p \in Players |-> 0]
    /\ frame = IdleFrame
    /\ superseded = {}
    /\ standing = EmptyAgg
    /\ inFlight = NoCalls

NextHooks ==
    \/ OnKill
    \/ \E p \in Players : OnConnected(p)

SpecHooks == InitHooks /\ [][NextHooks]_vars

-----------------------------------------------------------------------------
(* SpecEngine: one call of get_punitions_to_apply on every team view with    *)
(* at most MaxSquads squads a team, with every call that may raise           *)

\* The team views: a team without an entry has nothing else
TeamViews == [allies : {e \in TeamEntries : ~e.present => e = NoTeam},
              axis   : {e \in TeamEntries : ~e.present => e = NoTeam}]

InitEngine ==
    /\ guardTTL = 0
    /\ enabledMods \in ConfigChoices \ {{}}
    /\ pollAlive = TRUE
    /\ pollSleep = 0
    /\ timers = <<>>
    /\ pendingTimers = [p \in Players |-> 0]
    /\ \E tv \in TeamViews, fault \in Faults, ts \in Proposals("p1") :
          /\ (fault # "none" \/ EvalCalls(enabled_moderators, tv) = <<>>) => ts = <<>>
          /\ frame = [IdleFrame EXCEPT !.src = "get_punitions_to_apply",
                                       !.phase = "call",
                                       !.mods = enabled_moderators,
                                       !.agg = AggOf(ts),
                                       !.team_view = tv, !.fault = fault]
    /\ sinceMark = -1
    /\ cycleDone = FALSE
    /\ superseded = {}
    /\ standing = EmptyAgg
    /\ inFlight = NoCalls

EngineRun ==
    /\ frame.phase = "call"
    /\ frame.src = "get_punitions_to_apply"
    /\ LET r == get_punitions_to_apply(frame.mods, frame.team_view, frame.fault,
                                       frame.agg)
       IN  frame' = [frame EXCEPT !.phase = "return", !.trace = r.trace,
                                  !.raised = r.raised, !.agg = r.agg]
    /\ UNCHANGED <<guardTTL, enabledMods, pollAlive, pollSleep, timers, pendingTimers,
                   sinceMark, cycleDone, superseded, standing, inFlight>>

NextEngine == EngineRun

SpecEngine == InitEngine /\ [][NextEngine]_vars

-----------------------------------------------------------------------------
(* SpecNotify: a Timer that on_connected started with at most MaxActions     *)
(* warnings, at the end of its delay, under every behaviour of the channel   *)

InitNotify ==
    /\ guardTTL \in {0, GuardTTL - TimerDelay}
    /\ enabledMods = Moderators
    /\ pollAlive = TRUE
    /\ pollSleep = 0
    /\ \E p \in Players, k \in 1..MaxActions :
          \E ws \in [1..k -> {a \in Acts : a.player_id = p}] :
              /\ timers = <<[player_id |-> p, warnings |-> ws, rem |-> 0,
                             fired |-> FALSE]>>
              /\ pendingTimers = [q \in Players |-> IF q = p THEN 1 ELSE 0]
    /\ frame = IdleFrame
    /\ sinceMark = TimerDelay
    /\ cycleDone = TRUE
    /\ superseded = {}
    /\ standing = EmptyAgg
    /\ inFlight = NoCalls

NextNotify == \E i \in 1..Len(timers) : TimerFires(i)

SpecNotify == InitNotify /\ [][NextNotify]_vars

-----------------------------------------------------------------------------
(* SpecCycle: the poll loop from the start of the process, alone. Its first  *)
(* turn gets every aggregate of at most MaxActions actions and every         *)
(* behaviour of the channel; the turns after it are those of PollCycle.      *)

CycleTasks == {t \in Tasks : ~t.act.has_url}

InitCycle ==
    /\ guardTTL = 0
    /\ enabledMods \in ConfigChoices \ {{}}
    /\ pollAlive = TRUE
    /\ pollSleep = 0
    /\ timers = <<>>
    /\ pendingTimers = [p \in Players |-> 0]
    /\ \E tv \in TeamViewChoices, fault \in Faults,
          ts \in UNION {[1..k -> CycleTasks] : k \in 0..MaxActions} :
          /\ ~Used(enabled_moderators, tv, fault) => ts = <<>>
          /\ frame = [IdleFrame EXCEPT !.src = "run", !.phase = "call",
                                       !.mods = enabled_moderators,
                                       !.agg = AggOf(ts), !.oracle = OracleOf(ts),
                                       !.team_view = tv, !.fault = fault]
    /\ sinceMark = -1
    /\ cycleDone = FALSE
    /\ superseded = {}
    /\ standing = EmptyAgg
    /\ inFlight = NoCalls

FirstCycle ==
    /\ frame.phase = "call"
    /\ frame.src = "run"
    /\ pollAlive
    /\ pollSleep = 0
    /\ Cycle(frame.team_view, frame.fault, frame.agg, frame.oracle)

NextCycle ==
    \/ FirstCycle
    \/ \E d \in TickSteps : Tick(d)
    \/ PollCycle
    \/ Return

SpecCycle == InitCycle /\ [][NextCycle]_vars

-----------------------------------------------------------------------------
(* SpecGuard: one step of each of the four pieces of code that run beside    *)
(* each other (a turn of the poll loop, the kill hook, the connect hook, a   *)
(* Timer), in every state of the guard and under every configuration         *)

\* The states of the guard: never marked, run out, about to run out, just marked
GuardStates ==
    {[ttl |-> 0, since |-> -1, done |-> FALSE],
     [ttl |-> 0, since |-> GuardTTL, done |-> TRUE],
     [ttl |-> 0, since |-> GuardTTL, done |-> FALSE],
     [ttl |-> TimerDelay, since |-> GuardTTL - TimerDelay, done |-> TRUE],
     [ttl |-> GuardTTL, since |-> 0, done |-> TRUE],
     [ttl |-> GuardTTL, since |-> 0, done |-> FALSE]}

\* The warning of a Timer that waits for the end of its delay
WaitingWarnings == {<<a>> : a \in {b \in Acts : b.player_id = "p1" /\ ~b.has_url}}

InitGuard ==
    /\ \E g \in GuardStates :
          /\ guardTTL = g.ttl
          /\ sinceMark = g.since
          /\ cycleDone = g.done
    /\ enabledMods \in ConfigChoices
    /\ pollAlive = TRUE
    /\ pollSleep = 0
    /\ \/ /\ timers = <<>>
          /\ pendingTimers = [p \in Players |-> 0]
       \/ /\ sinceMark >= TimerDelay
          /\ \E ws \in WaitingWarnings :
                timers = <<[player_id |-> "p1", warnings |-> ws, rem |-> 0,
                            fired |-> FALSE]>>
          /\ pendingTimers = [p \in Players |-> IF p = "p1" THEN 1 ELSE 0]
    /\ frame = IdleFrame
    /\ superseded = {}
    /\ standing = EmptyAgg
    /\ inFlight = NoCalls

NextGuard ==
    \/ PollCycle
    \/ OnKill
    \/ \E p \in Players : OnConnected(p)
    \/ \E i \in 1..Len(timers) : TimerFires(i)

SpecGuard == InitGuard /\ [][NextGuard]_vars

-----------------------------------------------------------------------------
(* SpecRetry: the poll loop when the moderators propose the same action of   *)
(* one player in every turn, nothing but its command fails, and that only    *)
(* with the failures the executor catches.                                   *)
(* Fairness: time passes, a handler that has finished returns, and the loop  *)
(* takes its next turn when its sleep is over (while True of run()); the     *)
(* channel does not refuse the command for ever.                             *)

\* The aggregates of one action of one player that is not a dry run
StandingChoices ==
    {AggOf(<<t>>) : t \in {u \in Tasks : /\ u.act.player_id = "p1"
                                         /\ ~u.act.dry_run
                                         /\ u.res = "ok"}}

RetryOutcomes == {"ok"} \cup Recognized

\* What the channel does with the one command of a turn
RetryOracle(res) == [warning |-> <<res>>, punish |-> <<res>>, kick |-> <<res>>]

RetryView == [allies |-> [present |-> TRUE, commander |-> TRUE, squads |-> 1],
              axis   |-> NoTeam]

InitRetry ==
    /\ guardTTL = 0
    /\ enabledMods \in ConfigChoices \ {{}}
    /\ pollAlive = TRUE
    /\ pollSleep = 0
    /\ timers = <<>>
    /\ pendingTimers = [p \in Players |-> 0]
    /\ frame = IdleFrame
    /\ sinceMark = -1
    /\ cycleDone = FALSE
    /\ superseded = {}
    /\ standing \in StandingChoices
    /\ inFlight = NoCalls

RetryCycle(res) ==
    /\ Idle
    /\ pollAlive
    /\ pollSleep = 0
    /\ Cycle(RetryView, "none", standing, RetryOracle(res))

NextRetry ==
    \/ \E res \in RetryOutcomes : RetryCycle(res)
    \/ \E d \in TickSteps : Tick(d)
    \/ Return

FairRetry ==
    /\ WF_vars(Return)
    /\ WF_vars(\E d \in TickSteps : Tick(d))
    /\ WF_vars(\E res \in RetryOutcomes : RetryCycle(res))
    /\ SF_vars(RetryCycle("ok"))

SpecRetry == InitRetry /\ [][NextRetry]_vars /\ FairRetry

-----------------------------------------------------------------------------
(* SpecChannel: the calls of the rcon client alone, each with its start and  *)
(* its return, made by the threads that run beside each other. The source    *)
(* takes no lock and waits for no other thread before it calls the client.   *)

\* The methods of the rcon client each thread calls
CallsOf(src) ==
    CASE src = "run"           -> {"get_team_view", "get_gamestate", "message_player",
                                   "punish", "kick"}
      [] src = "on_kill"       -> {"message_player", "punish", "kick"}
      [] src = "on_connected"  -> {"get_detailed_player_info"}
      [] src = "notify_player" -> {"message_player"}

\* The rcon client: it takes a call whatever other calls it is in
ClientAdmits(calls, src, method) == TRUE

\* The thread is at a place of the source where it calls the client
AtCallSite(src, method) ==
    CASE src = "run" ->
            /\ pollAlive
            /\ enabled_moderators # <<>>
      [] src = "on_kill" ->
            /\ is_first_run_done
            /\ HookMods(enabled_moderators, ExposesOnKill) # <<>>
      [] src = "on_connected" ->
            /\ is_first_run_done
            /\ enabled_moderators # <<>>
      [] src = "notify_player" ->
            \E i \in 1..Len(timers) : ~timers[i].fired /\ timers[i].rem = 0

InitChannel ==
    /\ \E g \in {[ttl |-> 0, since |-> -1, done |-> FALSE],
                  [ttl |-> GuardTTL - TimerDelay, since |-> TimerDelay, done |-> TRUE]} :
          /\ guardTTL = g.ttl
          /\ sinceMark = g.since
          /\ cycleDone = g.done
    /\ enabledMods \in ConfigChoices
    /\ pollAlive = TRUE
    /\ pollSleep = 0
    /\ \/ /\ timers = <<>>
          /\ pendingTimers = [p \in Players |-> 0]
       \/ /\ sinceMark >= TimerDelay
          /\ \E ws \in WaitingWarnings :
                timers = <<[player_id |-> "p1", warnings |-> ws, rem |-> 0,
                            fired |-> FALSE]>>
          /\ pendingTimers = [p \in Players |-> IF p = "p1" THEN 1 ELSE 0]
    /\ frame = IdleFrame
    /\ superseded = {}
    /\ standing = EmptyAgg
    /\ inFlight = NoCalls

\* A thread calls a method of the client.
ChannelCall(src, method) ==
    /\ inFlight[src] = "none"
    /\ method \in CallsOf(src)
    /\ AtCallSite(src, method)
    /\ ClientAdmits(inFlight, src, method)
    /\ inFlight' = [inFlight EXCEPT ![src] = method]
    /\ IF src = "notify_player"
       THEN \E i \in 1..Len(timers) :
               /\ ~timers[i].fired /\ timers[i].rem = 0
               /\ timers' = [timers EXCEPT ![i].fired = TRUE]
       ELSE UNCHANGED timers
    /\ UNCHANGED <<guardTTL, enabledMods, pollAlive, pollSleep, pendingTimers, frame,
                   sinceMark, cycleDone, superseded, standing>>

\* The call returns or raises.
ChannelReturn(src) ==
    /\ inFlight[src] # "none"
    /\ inFlight' = [inFlight EXCEPT ![src] = "none"]
    /\ UNCHANGED <<guardTTL, enabledMods, pollAlive, pollSleep, timers, pendingTimers,
                   frame, sinceMark, cycleDone, superseded, standing>>

NextChannel ==
    \/ \E src \in Sources : \E method \in CallsOf(src) : ChannelCall(src, method)
    \/ \E src \in Sources : ChannelReturn(src)

SpecChannel == InitChannel /\ [][NextChannel]_vars

-----------------------------------------------------------------------------
(* Reading a trace *)

Rank(method) == CASE method = "MESSAGE" -> 1 [] method = "PUNISH" -> 2
                  [] method = "KICK" -> 3 [] OTHER -> 0

\* The positions of a trace that hold an entry of the given kind for the
\* idx-th action of the given pass
At(trace, ev, method, idx) ==
    {n \in 1..Len(trace) : /\ trace[n].ev = ev
                           /\ trace[n].method = method
                           /\ trace[n].idx = idx}

Returned == frame.phase = "return"

\* The start of the msg an audit record carries: the f-strings of _do_punitions
AuditPrefix(e) ==
    CASE e.info = "kick_failed"  -> "---> KICK FAILED, will retry <---"
      [] e.method = "MESSAGE"    -> "-> WARNING"
      [] e.method = "PUNISH"     -> "--> PUNISHING"
      [] e.method = "KICK"       -> "---> KICKING <---"
      [] OTHER                   -> ""

\* The entries the executor writes: the turns of its loops and its commands
ExecSteps(trace) ==
    {n \in 1..Len(trace) : trace[n].ev \in {"begin", "cmd"} /\ Rank(trace[n].method) > 0}

-----------------------------------------------------------------------------
(* C3: in one run of the executor every warning is attempted before any      *)
(* punish and every punish before any kick, so a player who is both warned   *)
(* and kicked gets the message command before the kick command.              *)
C3_WarnPunishKickOrder ==
    Returned =>
        \A m, n \in ExecSteps(frame.trace) :
            m < n => Rank(frame.trace[m].method) <= Rank(frame.trace[n].method)

\* One player is sent a message and a kick in the same run.
C3_Witness ==
    /\ Returned
    /\ \E m, n \in 1..Len(frame.trace) :
          /\ frame.trace[m].ev = "cmd" /\ frame.trace[m].method = "MESSAGE"
          /\ frame.trace[n].ev = "cmd" /\ frame.trace[n].method = "KICK"
          /\ frame.trace[m].act.player_id = frame.trace[n].act.player_id

(* C4: an action the executor processes with dry_run set sends no command of *)
(* any kind, and leaves exactly one success audit record if it has an audit  *)
(* url and no audit record if it has none.                                   *)
C4_DryRunSendsNothingAuditsOnce ==
    Returned =>
        \A n \in 1..Len(frame.trace) :
            LET e == frame.trace[n]
            IN  (e.ev = "begin" /\ e.act.dry_run) =>
                  /\ At(frame.trace, "cmd", e.method, e.idx) = {}
                  /\ At(frame.trace, "player_punish_failed", e.method, e.idx) = {}
                  /\ \A a \in At(frame.trace, "audit", e.method, e.idx) :
                        frame.trace[a].info = "success"
                  /\ Cardinality(At(frame.trace, "audit", e.method, e.idx))
                        = IF e.act.has_url THEN 1 ELSE 0

\* A run that processed a dry-run kick with an audit url and a dry-run action
\* without one.
C4_Witness ==
    /\ Returned
    /\ \E m, n \in 1..Len(frame.trace) :
          /\ frame.trace[m].ev = "begin" /\ frame.trace[m].act.dry_run
          /\ frame.trace[m].act.has_url /\ frame.trace[m].method = "KICK"
          /\ frame.trace[n].ev = "begin" /\ frame.trace[n].act.dry_run
          /\ ~frame.trace[n].act.has_url

(* C6: when the channel fails a punish command with CommandFailedError or    *)
(* HLLServerError, player_punish_failed is called exactly once on every      *)
(* enabled moderator (the one that proposed the action is among them), no    *)
(* audit record is written for the action, and the pass goes on: the next    *)
(* player is attempted, and so are all the others unless a later command     *)
(* raises a failure the executor does not catch.                             *)
C6_PunishFailureCallbackOnceAndContinue ==
    Returned =>
        \A n \in 1..Len(frame.trace) :
            LET e == frame.trace[n]
                cbs == At(frame.trace, "player_punish_failed", "PUNISH", e.idx)
            IN  (e.ev = "cmd" /\ e.method = "PUNISH" /\ e.info \in Recognized) =>
                  /\ \A k \in 1..Len(frame.mods) :
                        Cardinality({c \in cbs : frame.trace[c].info = frame.mods[k]}) = 1
                  /\ Cardinality(cbs) = Len(frame.mods)
                  /\ At(frame.trace, "audit", "PUNISH", e.idx) = {}
                  /\ e.idx < Len(frame.agg.punish) =>
                        At(frame.trace, "begin", "PUNISH", e.idx + 1) # {}
                  /\ ~frame.raised =>
                        \A j \in 1..Len(frame.agg.punish) :
                            At(frame.trace, "begin", "PUNISH", j) # {}

\* A punish command failed with a recognized failure and another player came
\* after it in the punish list.
C6_Witness ==
    /\ Returned
    /\ Len(frame.mods) > 1
    /\ \E n \in 1..Len(frame.trace) :
          /\ frame.trace[n].ev = "cmd" /\ frame.trace[n].method = "PUNISH"
          /\ frame.trace[n].info = "CommandFailedError"
          /\ frame.trace[n].idx < Len(frame.agg.punish)

-----------------------------------------------------------------------------
(* C1: a Timer that was overwritten in pendingTimers before it fired never   *)
(* delivers its messages, so that of two schedulings for one player only the *)
(* second is delivered.                                                      *)
C1_SupersededTimerNeverDelivers ==
    (Returned /\ frame.src = "notify_player" /\ frame.timer \in superseded)
        => frame.trace = <<>>

(* C2: the punish and kick entries of the aggregate the connect hook merged  *)
(* are applied during the hook: a punish or kick command is sent for each    *)
(* entry that is not a dry run.                                              *)
C2_ConnectAppliesPunishAndKick ==
    (Returned /\ frame.src = "on_connected") =>
        /\ \A i \in 1..Len(frame.agg.punish) :
              ~frame.agg.punish[i].dry_run => At(frame.trace, "cmd", "PUNISH", i) # {}
        /\ \A i \in 1..Len(frame.agg.kick) :
              ~frame.agg.kick[i].dry_run => At(frame.trace, "cmd", "KICK", i) # {}

(* C5: on no path (poll loop, kill hook, connect hook, Timer) is a command   *)
(* sent to the channel for an action whose dry_run flag is set.              *)
C5_NoCommandForDryRunAnywhere ==
    Returned =>
        \A n \in 1..Len(frame.trace) :
            frame.trace[n].ev = "cmd" => ~frame.trace[n].act.dry_run

(* C7: a kill or connect event handled while the guard is not ready does no  *)
(* work: no moderator hook is called, no command (not even the fetch of the  *)
(* detailed player info) is sent, no Timer is started, nothing is raised.    *)
C7_HooksIdleWhileGuardNotReady ==
    (Returned /\ frame.src \in {"on_kill", "on_connected"} /\ frame.entryTTL = 0) =>
        /\ frame.trace = <<>>
        /\ frame.timer = 0
        /\ ~frame.raised

\* A kill event handled after the guard has run out, with every moderator
\* enabled.
C7_Witness ==
    /\ Returned
    /\ frame.src = "on_kill"
    /\ frame.entryTTL = 0
    /\ sinceMark = GuardTTL
    /\ enabledMods = Moderators

(* C8: after a restart of the process no hook enforces anything (calls a     *)
(* moderator hook or sends a command) until a poll cycle of the restarted    *)
(* process has completed, also when the restart comes less than 4 minutes    *)
(* after the guard was last marked ready.                                    *)
C8_NoEnforcementBeforeFirstCycleOfThisRun ==
    (Returned /\ frame.src \in {"on_kill", "on_connected"} /\ ~frame.entryDone) =>
        \A n \in 1..Len(frame.trace) :
            frame.trace[n].ev \notin {"mod_call", "cmd", "schedule"}

(* C9: the guard is ready exactly when set_first_run_done has been called    *)
(* and less than the expiry window has passed since its most recent call:    *)
(* not ready before the first call, ready right after any call, not ready    *)
(* once the window has passed without another call.                          *)
C9_ReadyIffMarkedWithinWindow ==
    is_first_run_done <=> (sinceMark >= 0 /\ sinceMark < GuardTTL)

\* The guard was marked and the window has passed since.
C9_Witness ==
    /\ sinceMark = GuardTTL
    /\ ~is_first_run_done

(* C10: a poll cycle that finds no moderator enabled calls nothing (no fetch *)
(* of team view or game state, no command, no moderator) and leaves the      *)
(* guard as it was.                                                          *)
C10_EmptyConfigCycleDoesNothing ==
    (Returned /\ frame.src = "run" /\ frame.mods = <<>>) =>
        /\ frame.trace = <<>>
        /\ ~frame.raised
        /\ guardTTL = frame.entryTTL

\* Such a cycle, run while the guard is ready with part of its window gone: a
\* call of set_first_run_done would have changed it.
C10_Witness ==
    /\ Returned
    /\ frame.src = "run"
    /\ frame.mods = <<>>
    /\ guardTTL = GuardTTL - TimerDelay

-----------------------------------------------------------------------------
(* C11: for a punish action that is not a dry run and that the channel       *)
(* accepts, one run of the executor sends exactly one punish command, writes *)
(* exactly one audit record, with the PUNISHING prefix, if the action has an *)
(* audit url (none if it has not), and calls no player_punish_failed.        *)
C11_AcceptedPunishOnceAuditedOnce ==
    Returned =>
        \A n \in 1..Len(frame.trace) :
            LET e == frame.trace[n]
                audits == At(frame.trace, "audit", "PUNISH", e.idx)
            IN  (e.ev = "cmd" /\ e.method = "PUNISH" /\ e.info = "ok") =>
                  /\ ~e.act.dry_run
                  /\ Cardinality(At(frame.trace, "cmd", "PUNISH", e.idx)) = 1
                  /\ Cardinality(audits) = IF e.act.has_url THEN 1 ELSE 0
                  /\ \A a \in audits : /\ AuditPrefix(frame.trace[a]) = "--> PUNISHING"
                                       /\ a > n
                  /\ At(frame.trace, "player_punish_failed", "PUNISH", e.idx) = {}

\* The channel accepted the punish of an action with an audit url, with more
\* than one moderator enabled.
C11_Witness ==
    /\ Returned
    /\ Len(frame.mods) > 1
    /\ \E n \in 1..Len(frame.trace) :
          /\ frame.trace[n].ev = "cmd" /\ frame.trace[n].method = "PUNISH"
          /\ frame.trace[n].info = "ok"
          /\ frame.trace[n].act.has_url

-----------------------------------------------------------------------------
\* The calls of punitions_to_apply in a trace for one unit of one team
CallsFor(trace, team, unit) ==
    {n \in 1..Len(trace) : /\ trace[n].ev = "mod_call"
                           /\ trace[n].method = "punitions_to_apply"
                           /\ trace[n].team = team
                           /\ trace[n].unit = unit}

\* Every moderator of the list is called exactly once for the unit
EveryModOnce(trace, mods, team, unit) ==
    /\ Cardinality(CallsFor(trace, team, unit)) = Len(mods)
    /\ \A k \in 1..Len(mods) :
          Cardinality({n \in CallsFor(trace, team, unit) : trace[n].info = mods[k]}) = 1

(* C12: in an evaluation in which no fetch and no moderator raises, for each *)
(* side: if the team has no entry no moderator is called for that side; if   *)
(* it has an entry but no commander no moderator is called with the unit     *)
(* "Commander" for that side; the evaluation raises nothing; every squad of  *)
(* a team that has an entry is evaluated by every moderator, and so is its   *)
(* commander if it has one, whatever the other side looks like.              *)
C12_AbsentTeamOrCommanderSkipped ==
    (Returned /\ frame.src = "get_punitions_to_apply" /\ frame.fault = "none") =>
        /\ ~frame.raised
        /\ \A t \in {Teams[1], Teams[2]} :
              LET entry == frame.team_view[t]
              IN  /\ ~entry.present =>
                        {n \in 1..Len(frame.trace) : /\ frame.trace[n].ev = "mod_call"
                                                     /\ frame.trace[n].team = t} = {}
                  /\ (entry.present /\ ~entry.commander) =>
                        CallsFor(frame.trace, t, "Commander") = {}
                  /\ (entry.present /\ entry.commander) =>
                        EveryModOnce(frame.trace, frame.mods, t, "Commander")
                  /\ entry.present =>
                        \A i \in 1..entry.squads :
                            EveryModOnce(frame.trace, frame.mods, t, SquadNames[i])

\* The first side has no entry; the second has one, with squads and without a
\* commander; more than one moderator is enabled.
C12_Witness ==
    /\ Returned
    /\ frame.src = "get_punitions_to_apply"
    /\ frame.fault = "none"
    /\ ~frame.raised
    /\ Len(frame.mods) > 1
    /\ ~frame.team_view[Teams[1]].present
    /\ frame.team_view[Teams[2]].present
    /\ ~frame.team_view[Teams[2]].commander
    /\ frame.team_view[Teams[2]].squads = MaxSquads
    /\ CallsFor(frame.trace, Teams[2], SquadNames[1]) # {}

-----------------------------------------------------------------------------
(* C13: when a Timer fires with several warnings and the delivery of one of  *)
(* them fails, nothing escapes notify_player and every warning that comes    *)
(* after it is still sent.                                                   *)
C13_NotifyAttemptsEveryMessage ==
    (Returned /\ frame.src = "notify_player") =>
        /\ ~frame.raised
        /\ \A k \in 1..Len(frame.agg.warning) :
              At(frame.trace, "cmd", "MESSAGE", k) # {}

-----------------------------------------------------------------------------
\* The list of an aggregate a pass works on
ListOf(agg, method) ==
    CASE method = "MESSAGE" -> agg.warning
      [] method = "PUNISH"  -> agg.punish
      [] method = "KICK"    -> agg.kick

\* A command the channel failed with one of the two failures the executor catches
RecognizedFailure(e) == e.ev = "cmd" /\ Rank(e.method) > 0 /\ e.info \in Recognized

\* Every action of the aggregate had its turn
AllAttempted(trace, agg) ==
    \A method \in Methods : \A j \in 1..Len(ListOf(agg, method)) :
        At(trace, "begin", method, j) # {}

(* C14: a CommandFailedError or HLLServerError of a warning, punish or kick  *)
(* never leaves the executor. After such a failure the run goes on with the  *)
(* next action (of the same pass or of a later one) or, after the last       *)
(* action, with set_first_run_done; only a failure of another kind, of a     *)
(* fetch or of a moderator ends a poll cycle early; a cycle that ends        *)
(* without one has attempted every action, has marked the guard and leaves   *)
(* the loop running; and no action is sent twice in one run.                 *)
C14_RecognizedFailureNeverPropagates ==
    (Returned /\ frame.src = "run") =>
        LET trace == frame.trace
        IN  /\ \A n \in 1..Len(trace) :
                  RecognizedFailure(trace[n]) =>
                      /\ n < Len(trace)
                      /\ \E m \in (n + 1)..Len(trace) : trace[m].ev \in {"begin", "mark"}
                      /\ LET e == trace[n]
                         IN  e.idx < Len(ListOf(frame.agg, e.method)) =>
                                 At(trace, "begin", e.method, e.idx + 1) # {}
            /\ frame.raised =>
                  /\ trace # <<>>
                  /\ ~RecognizedFailure(trace[Len(trace)])
                  /\ trace[Len(trace)].ev \in {"cmd", "fetch", "mod_call"}
            /\ (~frame.raised /\ frame.mods # <<>>) =>
                  /\ AllAttempted(trace, frame.agg)
                  /\ trace[Len(trace)] = MarkEv
                  /\ guardTTL = GuardTTL
                  /\ pollAlive
            /\ \A method \in Methods : \A j \in 1..Len(ListOf(frame.agg, method)) :
                  Cardinality(At(trace, "cmd", method, j)) <= 1

\* A cycle in which a warning failed with CommandFailedError and a kick with
\* HLLServerError, and which marked the guard.
C14_Witness ==
    /\ Returned
    /\ frame.src = "run"
    /\ \E m, n \in 1..Len(frame.trace) :
          /\ frame.trace[m].ev = "cmd" /\ frame.trace[m].method = "MESSAGE"
          /\ frame.trace[m].info = "CommandFailedError"
          /\ frame.trace[n].ev = "cmd" /\ frame.trace[n].method = "KICK"
          /\ frame.trace[n].info = "HLLServerError"
    /\ frame.trace[Len(frame.trace)] = MarkEv
    /\ guardTTL = GuardTTL

-----------------------------------------------------------------------------
\* A poll cycle that raised: what raised is the last thing it did, the actions
\* after it were not attempted, the guard is as it was and the loop has ended
RaisedCycleStopsThere ==
    (Returned /\ frame.src = "run" /\ frame.raised) =>
        LET trace == frame.trace
            last  == trace[Len(trace)]
        IN  /\ trace # <<>>
            /\ \/ last.ev = "cmd" /\ last.info \notin Recognized \cup {"ok"}
               \/ last.ev = "fetch" /\ last.info = "Exception"
               \/ last.ev = "mod_call"
            /\ \A n \in 1..Len(trace) :
                  (trace[n].ev \in {"cmd", "fetch"} /\ trace[n].info = "Exception")
                      => n = Len(trace)
            /\ last.ev = "cmd" =>
                  \A method \in Methods : \A j \in 1..Len(ListOf(frame.agg, method)) :
                      (Rank(method) > Rank(last.method)
                          \/ (method = last.method /\ j > last.idx))
                      => At(trace, "begin", method, j) = {}
            /\ last.ev # "cmd" => ExecSteps(trace) = {}
            /\ \A n \in 1..Len(trace) : trace[n].ev # "mark"
            /\ guardTTL = frame.entryTTL
            /\ cycleDone = frame.entryDone
            /\ ~pollAlive

\* Once the loop has ended no poll cycle starts: the loop stays ended and no
\* frame of run() appears
EndedLoopStaysEnded ==
    ~pollAlive => /\ ~pollAlive'
                  /\ frame'.src = "run" => frame' = frame
                  /\ guardTTL' <= guardTTL

(* C15: a failure that leaves a poll cycle (a failure of an action that the  *)
(* executor does not catch, a failure of a moderator's evaluation, a failure *)
(* of the fetch of the team view or of the game state) ends the poll loop:   *)
(* the actions after it are not attempted, the guard is not marked in that   *)
(* cycle, and no poll cycle starts afterwards in that process.               *)
C15_EscapedFailureEndsPollLoop ==
    [](RaisedCycleStopsThere) /\ [][EndedLoopStaysEnded]_vars

\* A warning raised a failure the executor does not catch while a kick was
\* still to come; the loop has ended.
C15_Witness ==
    /\ Returned
    /\ frame.src = "run"
    /\ frame.raised
    /\ ~pollAlive
    /\ frame.trace[Len(frame.trace)].ev = "cmd"
    /\ frame.trace[Len(frame.trace)].method = "MESSAGE"
    /\ frame.trace[Len(frame.trace)].info = "Exception"
    /\ Len(frame.agg.kick) > 0

-----------------------------------------------------------------------------
\* The positions of a trace at which set_first_run_done is called
Marks(trace) == {n \in 1..Len(trace) : trace[n].ev = "mark"}

(* C16: a poll cycle that runs with at least one moderator enabled and ends  *)
(* without raising calls set_first_run_done exactly once, as the last thing  *)
(* it does, after every action of the three passes had its turn, and leaves  *)
(* the key with its full time to live; a cycle without a moderator or one    *)
(* that raises does not call it; and the kill hook, the connect hook and     *)
(* notify_player never call it and leave the key as they found it.           *)
C16_MarkedOncePerCompletedCycleOnly ==
    Returned =>
        LET trace == frame.trace
        IN  /\ (frame.src = "run" /\ frame.mods # <<>> /\ ~frame.raised) =>
                  /\ Marks(trace) = {Len(trace)}
                  /\ AllAttempted(trace, frame.agg)
                  /\ \A n \in ExecSteps(trace) : n < Len(trace)
                  /\ guardTTL = GuardTTL
                  /\ sinceMark = 0
                  /\ cycleDone
            /\ (frame.src = "run" /\ (frame.mods = <<>> \/ frame.raised)) =>
                  /\ Marks(trace) = {}
                  /\ guardTTL = frame.entryTTL
            /\ frame.src \in {"on_kill", "on_connected", "notify_player"} =>
                  /\ Marks(trace) = {}
                  /\ guardTTL = frame.entryTTL
                  /\ cycleDone = frame.entryDone

\* A cycle that sent a command and marked a guard that was about to run out.
C16_Witness ==
    /\ Returned
    /\ frame.src = "run"
    /\ ~frame.raised
    /\ frame.entryTTL = TimerDelay
    /\ guardTTL = GuardTTL
    /\ \E n \in 1..Len(frame.trace) : frame.trace[n].ev = "cmd"

-----------------------------------------------------------------------------
(* C17: what a CommandFailedError or HLLServerError leaves behind depends on *)
(* the pass. A failed kick leaves exactly one audit record, the one that     *)
(* says KICK FAILED, will retry, if the action has an audit url (none if it  *)
(* has not), and no KICKING record; a failed warning leaves no audit record; *)
(* and player_punish_failed is called for failed punish actions only, never  *)
(* for a failed warning or kick.                                             *)
C17_FailureEffectsByActionKind ==
    Returned =>
        LET trace == frame.trace
        IN  /\ \A n \in 1..Len(trace) :
                  LET e == trace[n]
                      audits == At(trace, "audit", e.method, e.idx)
                  IN  RecognizedFailure(e) =>
                        /\ e.method = "KICK" =>
                              /\ Cardinality(audits) = IF e.act.has_url THEN 1 ELSE 0
                              /\ \A a \in audits :
                                    AuditPrefix(trace[a]) = "---> KICK FAILED, will retry <---"
                        /\ e.method = "MESSAGE" => audits = {}
                        /\ e.method # "PUNISH" =>
                              At(trace, "player_punish_failed", e.method, e.idx) = {}
            /\ \A n \in 1..Len(trace) :
                  trace[n].ev = "player_punish_failed" =>
                      /\ trace[n].method = "PUNISH"
                      /\ \E c \in At(trace, "cmd", "PUNISH", trace[n].idx) :
                            /\ c < n
                            /\ RecognizedFailure(trace[c])

\* A run in which a warning and a kick failed, both of actions with an audit
\* url, with more than one moderator enabled.
C17_Witness ==
    /\ Returned
    /\ Len(frame.mods) > 1
    /\ \E m, n \in 1..Len(frame.trace) :
          /\ RecognizedFailure(frame.trace[m]) /\ frame.trace[m].method = "MESSAGE"
          /\ frame.trace[m].act.has_url
          /\ RecognizedFailure(frame.trace[n]) /\ frame.trace[n].method = "KICK"
          /\ frame.trace[n].act.has_url

-----------------------------------------------------------------------------
\* The pass the standing action belongs to
StandingMethod ==
    IF standing.warning # <<>> THEN "MESSAGE"
    ELSE IF standing.punish # <<>> THEN "PUNISH" ELSE "KICK"

\* A poll cycle has just sent the command of the standing action and the
\* channel failed it with a failure the executor catches
FailedInCycle ==
    /\ Returned
    /\ frame.src = "run"
    /\ standing # EmptyAgg
    /\ \E n \in At(frame.trace, "cmd", StandingMethod, 1) :
          frame.trace[n].info \in Recognized

\* A poll cycle has just sent the command of the standing action and the
\* channel accepted it
AppliedInCycle ==
    /\ Returned
    /\ frame.src = "run"
    /\ standing # EmptyAgg
    /\ \E n \in At(frame.trace, "cmd", StandingMethod, 1) :
          /\ frame.trace[n].info = "ok"
          /\ frame.trace[n].act = ListOf(standing, StandingMethod)[1]

(* C18: when the moderators stay enabled and propose the same action for a   *)
(* player in every poll cycle, nothing raises a failure that ends the loop,  *)
(* and the channel fails the command only with CommandFailedError or         *)
(* HLLServerError and not for ever, then the action is applied in the end:   *)
(* a cycle is reached in which its command is accepted, and every cycle in   *)
(* which the command failed is followed by one in which it is accepted (for  *)
(* a kick: a delayed kick instead of an immediate one).                      *)
C18_FailedActionEventuallyApplied ==
    /\ <>AppliedInCycle
    /\ FailedInCycle ~> AppliedInCycle

\* A cycle in which the kick failed, which went on to mark the guard and left
\* the loop running.
C18_Witness ==
    /\ FailedInCycle
    /\ StandingMethod = "KICK"
    /\ pollAlive
    /\ pollSleep = SleepSecs
    /\ frame.trace[Len(frame.trace)] = MarkEv

-----------------------------------------------------------------------------
\* The connect hook has run and its fetch of the detailed player info failed
ConnectFetchFailed ==
    /\ Returned
    /\ frame.src = "on_connected"
    /\ \E n \in 1..Len(frame.trace) :
          /\ frame.trace[n].ev = "fetch"
          /\ frame.trace[n].method = "get_detailed_player_info"
          /\ frame.trace[n].info # "ok"

(* C19: when the connect hook runs with the guard ready and a moderator      *)
(* enabled and get_detailed_player_info raises, the hook raises nothing:     *)
(* every enabled moderator that has an on_connected is called once, after    *)
(* the fetch, with None as the detail, and if the merged warnings are not    *)
(* empty a Timer of 20 s is started with them and put in pendingTimers.      *)
C19_ConnectGoesOnWithoutDetail ==
    ConnectFetchFailed =>
        LET trace == frame.trace
            hooks == HookMods(frame.mods, ExposesOnConnected)
            calls == {n \in 1..Len(trace) : /\ trace[n].ev = "mod_call"
                                            /\ trace[n].method = "on_connected"}
        IN  /\ ~frame.raised
            /\ frame.entryTTL > 0
            /\ frame.mods # <<>>
            /\ Cardinality(calls) = Len(hooks)
            /\ \A k \in 1..Len(hooks) :
                  Cardinality({n \in calls : trace[n].info = hooks[k]}) = 1
            /\ \A n \in calls : trace[n].unit = "None" /\ n > 1
            /\ Len(frame.agg.warning) > 0 =>
                  /\ frame.timer = Len(timers)
                  /\ frame.timer > 0
                  /\ timers[frame.timer].warnings = frame.agg.warning
                  /\ timers[frame.timer].player_id = frame.player
                  /\ timers[frame.timer].rem = TimerDelay
                  /\ ~timers[frame.timer].fired
                  /\ pendingTimers[frame.player] = frame.timer
                  /\ trace[Len(trace)].ev = "schedule"

\* The fetch failed, two moderators were called and a Timer was started.
C19_Witness ==
    /\ ConnectFetchFailed
    /\ Len(HookMods(frame.mods, ExposesOnConnected)) > 1
    /\ frame.timer > 0
    /\ Len(timers) > 0

-----------------------------------------------------------------------------
(* C20: the calls of the rcon client are serialized over the poll loop, the  *)
(* hooks and the Timers: at no time are two threads of different kinds in a  *)
(* call of the client.                                                       *)
C20_ChannelCallsSerialized ==
    Cardinality({src \in Sources : inFlight[src] # "none"}) <= 1

====
